---------------------------- MODULE Spec2Model ----------------------------
(***************************************************************************)
(* A model of the argument parser in src/src/lib.rs: the three argument    *)
(* kinds (PosArg, KVArg, FlagArg), the Parser registry (add_pos_arg,       *)
(* add_kv_arg, add_flag_arg) and the matching loop of Parser::parse_vec.   *)
(*                                                                         *)
(* Tokens are strings; the loop of parse_vec is modelled one iteration per *)
(* step, the iterator `it` yielding the elements of argv one at a time.    *)
(* A panic (a failed assert!, an unwrap() of None, a panic!) ends the run: *)
(* `panic` records which one, and no action is enabled afterwards.         *)
(***************************************************************************)
EXTENDS Integers, Sequences, FiniteSets, TLC

(***************************************************************************)
(* Bounds of the model.                                                    *)
(***************************************************************************)
\* the largest number of elements of argv after the program path
MaxArgv == 4

(***************************************************************************)
(* Option<T>: None, or Some of an i32 or of a String.                      *)
(***************************************************************************)
None == [some |-> FALSE]
SomeInt(n) == [some |-> TRUE, int |-> n]
SomeStr(s) == [some |-> TRUE, str |-> s]
is_some(v) == v.some

\* val() that reads the value without taking it
take_left_keeps(v) == v
\* Option::take, the value left behind
take_left(v) == None
\* Option::take, the value returned
take_returned(v) == v

(***************************************************************************)
(* T::from_str(s).ok() for the two instantiations of T: i32 and String.    *)
(***************************************************************************)
Digits == {"0", "1", "2", "3", "4", "5", "6", "7", "8", "9"}
DigitVal(c) ==
  CASE c = "0" -> 0 [] c = "1" -> 1 [] c = "2" -> 2 [] c = "3" -> 3
    [] c = "4" -> 4 [] c = "5" -> 5 [] c = "6" -> 6 [] c = "7" -> 7
    [] c = "8" -> 8 [] c = "9" -> 9
I32Max == 2147483647
I32Min == -I32Max - 1

\* the digits of s read left to right onto acc (checked_mul by 10, then
\* checked_add of the digit, or checked_sub when neg); None on a character
\* that is no digit or on leaving the range of i32
RECURSIVE i32_digits(_, _, _)
i32_digits(s, acc, neg) ==
  IF Len(s) = 0 THEN SomeInt(acc)
  ELSE IF Head(s) \notin Digits THEN None
  ELSE LET d == DigitVal(Head(s))
       IN IF acc > I32Max \div 10 \/ acc < -(I32Max \div 10) THEN None
          ELSE IF neg
          THEN IF acc * 10 < I32Min + d THEN None
               ELSE i32_digits(Tail(s), acc * 10 - d, neg)
          ELSE IF acc * 10 > I32Max - d THEN None
               ELSE i32_digits(Tail(s), acc * 10 + d, neg)

i32_from_str(s) ==
  IF Len(s) = 0 THEN None
  ELSE IF Head(s) \in {"-", "+"}
       THEN IF Len(s) = 1 THEN None
            ELSE i32_digits(Tail(s), 0, Head(s) = "-")
       ELSE i32_digits(s, 0, FALSE)

String_from_str(s) == SomeStr(s)

from_str_ok(type, s) ==
  IF type = "i32" THEN i32_from_str(s) ELSE String_from_str(s)

(***************************************************************************)
(* The argument objects the caller constructs (PosArg::new, KVArg::new,    *)
(* FlagArg::new): name, short_key and the type parameter T are fixed at    *)
(* construction; short_key is <<>> for None and <<c>> for Some(c).         *)
(***************************************************************************)
PosArgs == {"path", "num", "path_again"}
PosArg_name(p) == IF p = "num" THEN "num" ELSE "path"
PosArg_type(p) == IF p = "path" THEN "String" ELSE "i32"

KVArgs == {"count", "c_short"}
KVArg_name(k) == IF k = "count" THEN "count" ELSE "c"
KVArg_short_key(k) == IF k = "count" THEN <<"c">> ELSE <<>>
KVArg_type(k) == "i32"

\* count_flag shares its long name with the KVArg count and has the marker
\* character as short key; e_acute has a long name of one character that is
\* two bytes of UTF-8, and shares its short key with the KVArg count
FlagArgs == {"verbose", "count_flag", "e_acute"}
FlagArg_name(f) ==
  CASE f = "verbose" -> "verbose" [] f = "count_flag" -> "count"
    [] f = "e_acute" -> "é"
FlagArg_short_key(f) ==
  CASE f = "verbose" -> <<"v">> [] f = "count_flag" -> <<"-">>
    [] f = "e_acute" -> <<"c">>

\* the strings an element of argv is drawn from
Tokens ==
  { "", "5", "x", "-", "42", "in.txt",
    "-c", "--c", "-count", "--count",
    "-v", "--v", "-verbose", "--verbose", "--bogus", "--", "---" }

\* Option<&String>: <<>> for None, <<s>> for Some(s)
OptTokens == {<<>>} \cup {<<t>> : t \in Tokens}

(***************************************************************************)
(* The panics of the source, by site.                                      *)
(***************************************************************************)
NoPanic == "none"
PanicDupPosName == "add_pos_arg: positional name already registered"
PanicKeyCollision == "add_kv_arg/add_flag_arg: long name already a key"
PanicNameLen == "add_kv_arg/add_flag_arg: long name not longer than 1"
PanicAliasCollision == "add_kv_arg/add_flag_arg: short key already a key"
PanicEmptyToken == "parse_vec: unwrap of None on the first character"
PanicShortToken == "parse_vec: unwrap of None on the second character"
PanicDupSupply == "parse_vec: argument already found"
PanicMissingValue == "parse_vec: unwrap of None on the value token"
PanicUnknownKey == "parse_vec: No such key"
PanicTooManyPos == "parse_vec: Too many positional args!"

VARIABLES
  pos_args,           \* Parser.pos_args: the registered PosArg objects, in order
  pos_arg_names,      \* Parser.pos_arg_names
  kv_keys,            \* Parser.kv_keys: key string -> KVArg object
  flag_keys,          \* Parser.flag_keys: key string -> FlagArg object
  pos_val,            \* PosArg.val of every PosArg object
  kv_val,             \* KVArg.val of every KVArg object
  flag_val,           \* FlagArg.val of every FlagArg object
  pc,                 \* "idle", or "loop" inside the while loop of parse_vec
  it,                 \* parse_vec: the number of elements `it` has yielded
  pos_args_consumed,  \* parse_vec: the positional cursor
  arg,                \* parse_vec: the token of the current iteration, <<>> if none
  val_arg,            \* parse_vec: the value token it.next() gave it, <<>> if none
  supplied,           \* parse_vec: the KVArg and FlagArg objects this call has parsed into
  alive,              \* whether the Parser (and its &mut borrows) is still in use
  ret,                \* what the last call of val() returned, <<>> if it was no val()
  panic               \* NoPanic, or the panic that ended the run

vars == <<pos_args, pos_arg_names, kv_keys, flag_keys, pos_val, kv_val, flag_val,
          pc, it, pos_args_consumed, arg, val_arg, supplied, alive, ret, panic>>

registry == <<pos_args, pos_arg_names, kv_keys, flag_keys>>
values == <<pos_val, kv_val, flag_val>>
locals == <<pc, it, pos_args_consumed, arg, val_arg, supplied>>

\* Parser::new, and every argument object freshly constructed
Init ==
  /\ pos_args = <<>>
  /\ pos_arg_names = {}
  /\ kv_keys = <<>>
  /\ flag_keys = <<>>
  /\ pos_val = [p \in PosArgs |-> None]
  /\ kv_val = [k \in KVArgs |-> None]
  /\ flag_val = [f \in FlagArgs |-> FALSE]
  /\ pc = "idle"
  /\ it = 0
  /\ pos_args_consumed = 0
  /\ arg = <<>>
  /\ val_arg = <<>>
  /\ supplied = {}
  /\ alive = TRUE
  /\ ret = <<>>
  /\ panic = NoPanic

(***************************************************************************)
(* The found() predicates.                                                 *)
(***************************************************************************)
PosArg_found(p) == is_some(pos_val[p])
\* a found() that tells whether this call of parse_vec has parsed into k
KVArg_found_this_call(k) == k \in supplied
KVArg_found(k) == is_some(kv_val[k])
FlagArg_found(f) == flag_val[f]

\* BTreeMap::contains_key and BTreeMap::insert
contains_key(m, k) == k \in DOMAIN m
insert(m, k, v) == [x \in DOMAIN m \cup {k} |-> IF x = k THEN v ELSE m[x]]

\* the elements of a sequence
Range(s) == {s[i] : i \in DOMAIN s}

\* the caller may call into the Parser
CanCall == panic = NoPanic /\ alive /\ pc = "idle"


(***************************************************************************)
(* Registration.                                                           *)
(***************************************************************************)
\* add_pos_arg without its assert!
add_pos_arg_unchecked(p) == TRUE
\* the assert! of add_pos_arg
add_pos_arg_assert(p) == ~(PosArg_name(p) \in pos_arg_names)

\* Parser::add_pos_arg. A PosArg is lent to the Parser as &'a mut, so an
\* object already in pos_args cannot be passed again.
add_pos_arg(p) ==
  /\ CanCall
  /\ p \notin Range(pos_args)
  /\ IF add_pos_arg_assert(p)
     THEN /\ pos_arg_names' = pos_arg_names \cup {PosArg_name(p)}
          /\ pos_args' = Append(pos_args, p)
          /\ UNCHANGED panic
     ELSE /\ panic' = PanicDupPosName
          /\ UNCHANGED <<pos_args, pos_arg_names>>
  /\ ret' = <<>>
  /\ UNCHANGED <<kv_keys, flag_keys, values, locals, alive>>

\* a first assert! that looks into kv_keys only
key_free_kv_only(key) == ~contains_key(kv_keys, key)
\* the first assert! of add_kv_arg and of add_flag_arg
key_free(key) == ~contains_key(kv_keys, key) /\ ~contains_key(flag_keys, key)
\* char::len_utf8, for the characters of the model: all are ASCII but one
len_utf8(c) == IF c = "é" THEN 2 ELSE 1
\* str::len, the length of a string in bytes of UTF-8
RECURSIVE len(_)
len(s) == IF Len(s) = 0 THEN 0 ELSE len_utf8(Head(s)) + len(Tail(s))
\* the second assert! of add_kv_arg and of add_flag_arg
name_len_ok(name) == len(name) > 1

\* Parser::add_kv_arg
add_kv_arg(k) ==
  /\ CanCall
  /\ LET name == KVArg_name(k)
         short_key == KVArg_short_key(k)
         named == insert(kv_keys, name, k)
     IN IF ~key_free(name)
        THEN panic' = PanicKeyCollision /\ UNCHANGED kv_keys
        ELSE IF ~name_len_ok(name)
        THEN panic' = PanicNameLen /\ UNCHANGED kv_keys
        ELSE IF short_key = <<>>
        THEN kv_keys' = named /\ UNCHANGED panic
        ELSE LET cs == short_key[1]
             IN IF ~contains_key(named, cs) /\ ~contains_key(flag_keys, cs)
                THEN kv_keys' = insert(named, cs, k) /\ UNCHANGED panic
                ELSE kv_keys' = named /\ panic' = PanicAliasCollision
  /\ ret' = <<>>
  /\ UNCHANGED <<pos_args, pos_arg_names, flag_keys, values, locals, alive>>

\* Parser::add_flag_arg
add_flag_arg(f) ==
  /\ CanCall
  /\ LET name == FlagArg_name(f)
         short_key == FlagArg_short_key(f)
         named == insert(flag_keys, name, f)
     IN IF ~key_free(name)
        THEN panic' = PanicKeyCollision /\ UNCHANGED flag_keys
        ELSE IF ~name_len_ok(name)
        THEN panic' = PanicNameLen /\ UNCHANGED flag_keys
        ELSE IF short_key = <<>>
        THEN flag_keys' = named /\ UNCHANGED panic
        ELSE LET cs == short_key[1]
             IN IF ~contains_key(named, cs) /\ ~contains_key(kv_keys, cs)
                THEN flag_keys' = insert(named, cs, f) /\ UNCHANGED panic
                ELSE flag_keys' = named /\ panic' = PanicAliasCollision
  /\ ret' = <<>>
  /\ UNCHANGED <<pos_args, pos_arg_names, kv_keys, values, locals, alive>>

(***************************************************************************)
(* One-shot extraction by the caller.                                      *)
(***************************************************************************)
\* KVArg::val, through the caller's own reference to the RefCell; the caller
\* holds no borrow of the RefCell across a call of the Parser
KVArg_val(k) ==
  /\ panic = NoPanic
  /\ pc = "idle"
  /\ ret' = <<k, take_returned(kv_val[k])>>
  /\ kv_val' = [kv_val EXCEPT ![k] = take_left(@)]
  /\ UNCHANGED <<registry, pos_val, flag_val, locals, alive, panic>>

\* PosArg::val: the caller reaches a PosArg it lent to the Parser only once
\* the Parser is no longer in use
PosArg_val(p) ==
  /\ panic = NoPanic
  /\ pc = "idle"
  /\ p \in Range(pos_args) => ~alive
  /\ ret' = <<p, take_returned(pos_val[p])>>
  /\ pos_val' = [pos_val EXCEPT ![p] = take_left(@)]
  /\ UNCHANGED <<registry, kv_val, flag_val, locals, alive, panic>>

\* the last use of the Parser: its borrows of the PosArg objects end
drop_parser ==
  /\ CanCall
  /\ alive' = FALSE
  /\ ret' = <<>>
  /\ UNCHANGED <<registry, values, locals, panic>>

(***************************************************************************)
(* Parser::parse_vec.                                                      *)
(***************************************************************************)
\* the parse methods of the three kinds
PosArg_parse(p, s) == from_str_ok(PosArg_type(p), s)
KVArg_parse(k, s) == from_str_ok(KVArg_type(k), s)
FlagArg_parse(f) == TRUE

\* `first == '-'`
is_marked(tok) == SubSeq(tok, 1, 1) = "-"
\* a key that is the token without its first marker, whatever follows it
strip_one_marker(tok) == SubSeq(tok, 2, Len(tok))
\* the key of a marked token: &arg[2..] after two markers, &arg[1..] after one
strip_key(tok) ==
  IF SubSeq(tok, 2, 2) = "-" THEN SubSeq(tok, 3, Len(tok))
  ELSE SubSeq(tok, 2, Len(tok))

\* an entry that does not skip: the first element is matched as a flag key
parse_vec_enter_matching(first) ==
  /\ CanCall
  /\ it' = Len(first)
  /\ pc' = "loop"
  /\ pos_args_consumed' = 0
  /\ arg' = <<>>
  /\ val_arg' = <<>>
  /\ supplied' = {}
  /\ ret' = <<>>
  /\ flag_val' = [f \in FlagArgs |->
                    \/ flag_val[f]
                    \/ /\ first # <<>>
                       /\ contains_key(flag_keys, SubSeq(first[1], 2, Len(first[1])))
                       /\ flag_keys[SubSeq(first[1], 2, Len(first[1]))] = f]
  /\ UNCHANGED <<registry, pos_val, kv_val, alive, panic>>

\* the call, up to and including `it.next()` skipping the program path;
\* first is argv's first element, <<>> when argv is empty
parse_vec_enter(first) ==
  /\ CanCall
  /\ it' = Len(first)
  /\ pc' = "loop"
  /\ pos_args_consumed' = 0
  /\ arg' = <<>>
  /\ val_arg' = <<>>
  /\ supplied' = {}
  /\ ret' = <<>>
  /\ UNCHANGED <<registry, values, alive, panic>>

\* a return that insists on every positional slot having been filled
parse_vec_return_complete ==
  /\ panic = NoPanic
  /\ pc = "loop"
  /\ IF pos_args_consumed < Len(pos_args)
     THEN panic' = "parse_vec: missing positional args" /\ UNCHANGED pc
     ELSE pc' = "idle" /\ UNCHANGED panic
  /\ it' = 0
  /\ pos_args_consumed' = 0
  /\ arg' = <<>>
  /\ val_arg' = <<>>
  /\ supplied' = {}
  /\ ret' = <<>>
  /\ UNCHANGED <<registry, values, alive>>

\* `it.next()` gives None: the loop and the call end
parse_vec_return ==
  /\ panic = NoPanic
  /\ pc = "loop"
  /\ pc' = "idle"
  /\ it' = 0
  /\ pos_args_consumed' = 0
  /\ arg' = <<>>
  /\ val_arg' = <<>>
  /\ supplied' = {}
  /\ ret' = <<>>
  /\ UNCHANGED <<registry, values, alive, panic>>

\* whether the iterator, having yielded n elements, can yield another
has_next(n) == n >= 1 /\ n <= MaxArgv

\* an iterator that every iteration moves past two elements
advance_two(n, v) == n + 2
\* an iterator that an iteration moves past its token only
advance_past_token(n, v) == n + 1
\* the iterator after an iteration: past the token, and past the value token
\* v when the iteration took one
advance(n, v) == n + 1 + Len(v)

\* a cursor that never leaves the first slot
next_pos_arg_first == pos_args[1]
\* a cursor that stays on the last slot
next_pos_arg_last == pos_args[Len(pos_args)]
\* the slot a bare token is parsed into: self.pos_args[pos_args_consumed]
next_pos_arg == pos_args[pos_args_consumed + 1]

\* a missing value token read as the empty string
it_next_or_empty(nxt) == IF nxt = <<>> THEN <<"">> ELSE nxt
\* `it.next()` for the value token of a key-value key
it_next(nxt) == nxt

\* a panic that takes back what earlier iterations parsed
parse_vec_panics_resetting(why) ==
  /\ panic' = why
  /\ it' = it + 1
  /\ val_arg' = <<>>
  /\ kv_val' = [k \in KVArgs |-> None]
  /\ flag_val' = [f \in FlagArgs |-> FALSE]
  /\ UNCHANGED <<pos_val, pos_args_consumed, supplied>>

\* the iteration ends in the panic why: nothing is parsed
parse_vec_panics(why) ==
  /\ panic' = why
  /\ it' = advance(it, <<>>)
  /\ val_arg' = <<>>
  /\ UNCHANGED <<values, pos_args_consumed, supplied>>

\* what the body of the while loop does with the token tok; nxt is the
\* element of argv after tok, which a further it.next() gives: <<>> when tok
\* is the last
parse_vec_match(tok, nxt) ==
  /\ panic = NoPanic
  /\ pc = "loop"
  /\ has_next(it)
  /\ nxt # <<>> => has_next(it + 1)
  /\ IF Len(tok) = 0
     THEN parse_vec_panics(PanicEmptyToken)
     ELSE IF Len(tok) = 1
     THEN parse_vec_panics(PanicShortToken)
     ELSE IF is_marked(tok)
     THEN LET key == strip_key(tok)
          IN IF contains_key(kv_keys, key)
             THEN LET k == kv_keys[key]
                  IN IF KVArg_found(k)
                     THEN parse_vec_panics(PanicDupSupply)
                     ELSE IF it_next(nxt) = <<>>
                     THEN parse_vec_panics(PanicMissingValue)
                     ELSE /\ kv_val' = [kv_val EXCEPT
                                         ![k] = KVArg_parse(k, it_next(nxt)[1])]
                          /\ it' = advance(it, it_next(nxt))
                          /\ val_arg' = it_next(nxt)
                          /\ supplied' = supplied \cup {k}
                          /\ UNCHANGED <<pos_val, flag_val, pos_args_consumed, panic>>
             ELSE IF contains_key(flag_keys, key)
             THEN LET f == flag_keys[key]
                  IN IF FlagArg_found(f)
                     THEN parse_vec_panics(PanicDupSupply)
                     ELSE /\ flag_val' = [flag_val EXCEPT ![f] = FlagArg_parse(f)]
                          /\ it' = advance(it, <<>>)
                          /\ val_arg' = <<>>
                          /\ supplied' = supplied \cup {f}
                          /\ UNCHANGED <<pos_val, kv_val, pos_args_consumed, panic>>
             ELSE parse_vec_panics(PanicUnknownKey)
     ELSE IF pos_args_consumed >= Len(pos_args)
     THEN parse_vec_panics(PanicTooManyPos)
     ELSE LET p == next_pos_arg
          IN /\ pos_val' = [pos_val EXCEPT ![p] = PosArg_parse(p, tok)]
             /\ pos_args_consumed' = pos_args_consumed + 1
             /\ it' = advance(it, <<>>)
             /\ val_arg' = <<>>
             /\ UNCHANGED <<kv_val, flag_val, supplied, panic>>
  /\ ret' = <<>>
  /\ UNCHANGED <<registry, pc, alive>>

\* one iteration of the while loop: `it.next()` gives the token tok
parse_vec_iteration(tok, nxt) ==
  /\ arg' = <<tok>>
  /\ parse_vec_match(tok, nxt)

\* whether the iteration on tok reaches the `it.next()` for a value token
takes_value(tok) ==
  /\ Len(tok) >= 2
  /\ is_marked(tok)
  /\ contains_key(kv_keys, strip_key(tok))
  /\ ~KVArg_found(kv_keys[strip_key(tok)])

\* the elements of argv after tok that make a difference to the iteration on
\* tok: any, or none, when it takes a value token; otherwise it does not look
following(tok) ==
  IF pc = "loop" /\ takes_value(tok) THEN OptTokens ELSE {<<>>}

\* the body of the while loop, on whatever argv holds next
parse_vec_loop ==
  \E tok \in Tokens : \E nxt \in following(tok) : parse_vec_iteration(tok, nxt)

Next ==
  \/ \E p \in PosArgs : add_pos_arg(p)
  \/ \E k \in KVArgs : add_kv_arg(k)
  \/ \E f \in FlagArgs : add_flag_arg(f)
  \/ \E k \in KVArgs : KVArg_val(k)
  \/ \E p \in PosArgs : PosArg_val(p)
  \/ drop_parser
  \/ \E first \in OptTokens : parse_vec_enter(first)
  \/ parse_vec_return
  \/ parse_vec_loop

Spec == Init /\ [][Next]_vars

(***************************************************************************)
(* Vocabulary of the properties below, in the words of the specification.  *)
(***************************************************************************)
\* a bare token: one that does not begin with the marker character
Bare(tok) == Len(tok) >= 1 /\ SubSeq(tok, 1, 1) # "-"
\* a marker-prefixed token
Marked(tok) == Len(tok) >= 1 /\ SubSeq(tok, 1, 1) = "-"
\* a marker-prefixed token without its one or two leading markers
KeyOf(tok) ==
  IF Len(tok) >= 2 /\ SubSeq(tok, 1, 2) = "--" THEN SubSeq(tok, 3, Len(tok))
  ELSE SubSeq(tok, 2, Len(tok))
\* tok is the key token of a registered key-value argument, of a flag
IsKVKey(tok) == Marked(tok) /\ KeyOf(tok) \in DOMAIN kv_keys
IsFlagKey(tok) ==
  Marked(tok) /\ KeyOf(tok) \notin DOMAIN kv_keys /\ KeyOf(tok) \in DOMAIN flag_keys
\* this step is an iteration of the matching loop, on the token arg'[1]
Iteration == pc = "loop" /\ panic = NoPanic /\ arg' # <<>> /\ it' > it
\* this step is an iteration that did not abort
Matched == Iteration /\ panic' = NoPanic
\* a positional slot remains, and which one
SlotRemains == pos_args_consumed < Len(pos_args)
NextSlot == pos_args[pos_args_consumed + 1]

(***************************************************************************)
(* C1: an iteration that does not abort routes its token to exactly one    *)
(* argument: a bare token is parsed into the next positional slot, the     *)
(* token after a key-value key into that key-value argument, a flag key    *)
(* sets that flag; every other value is left as it was, and the iterator   *)
(* moves past exactly the tokens routed.                                   *)
(***************************************************************************)
C1_Routed(tok) ==
  /\ it' = it + 1 + Len(val_arg')
  /\ IF Bare(tok)
     THEN /\ SlotRemains
          /\ pos_val' = [pos_val EXCEPT
                           ![NextSlot] = from_str_ok(PosArg_type(NextSlot), tok)]
          /\ val_arg' = <<>>
          /\ UNCHANGED <<kv_val, flag_val>>
     ELSE IF IsKVKey(tok)
     THEN /\ val_arg' # <<>>
          /\ kv_val' = [kv_val EXCEPT
                          ![kv_keys[KeyOf(tok)]] =
                             from_str_ok(KVArg_type(kv_keys[KeyOf(tok)]), val_arg'[1])]
          /\ UNCHANGED <<pos_val, flag_val>>
     ELSE /\ IsFlagKey(tok)
          /\ flag_val' = [flag_val EXCEPT ![flag_keys[KeyOf(tok)]] = TRUE]
          /\ val_arg' = <<>>
          /\ UNCHANGED <<pos_val, kv_val>>

\* C1: every iteration that does not abort routes its token as C1_Routed says
C1_EveryTokenRouted == [][Matched => C1_Routed(arg'[1])]_vars

\* one call has matched "in.txt", a key of count with "5", and last "-v"
C1_Witness ==
  /\ pc = "loop" /\ panic = NoPanic
  /\ pos_args = <<"path">> /\ pos_args_consumed = 1
  /\ supplied = {"count", "verbose"}
  /\ it = 5 /\ arg = <<"-v">>
  /\ pos_val["path"] = SomeStr("in.txt")
  /\ kv_val["count"] = SomeInt(5)
  /\ flag_val["verbose"]

(***************************************************************************)
(* C2: after a key of a key-value argument is matched with a convertible   *)
(* value token the argument is found and holds the converted value; val()  *)
(* returns what is held and leaves the argument not found, and a val()     *)
(* right after a val() of the same argument returns None.                  *)
(***************************************************************************)
C2_Step ==
  /\ (Matched /\ IsKVKey(arg'[1]))
       => LET k == kv_keys[KeyOf(arg'[1])]
              v == from_str_ok(KVArg_type(k), val_arg'[1])
          IN is_some(v) => is_some(kv_val'[k]) /\ kv_val'[k] = v
  /\ \A k \in KVArgs :
       (ret' # <<>> /\ ret'[1] = k)
         => /\ ret'[2] = kv_val[k]
            /\ ~is_some(kv_val'[k])
            /\ (ret # <<>> /\ ret[1] = k) => ret'[2] = None

\* C2: every step keeps the one-shot discipline of C2_Step
C2_OneShotValue == [][C2_Step]_vars

\* val() of count has returned Some(42)
C2_Witness == ret = <<"count", SomeInt(42)>>

(***************************************************************************)
(* C3: a key token of a key-value or flag argument that an earlier token   *)
(* of the same call was already routed to aborts the matching.             *)
(***************************************************************************)
C3_SecondSupplyAborts ==
  [][(/\ Iteration
      /\ \/ IsKVKey(arg'[1]) /\ kv_keys[KeyOf(arg'[1])] \in supplied
         \/ IsFlagKey(arg'[1]) /\ flag_keys[KeyOf(arg'[1])] \in supplied)
       => panic' # NoPanic]_vars

(***************************************************************************)
(* C4: a positional token, or the value token of a key-value key, that     *)
(* does not convert to the argument's type leaves the argument not found,  *)
(* and the matching goes on without aborting.                              *)
(***************************************************************************)
C4_ConversionFailureSilent ==
  [][Iteration =>
       /\ (/\ Bare(arg'[1])
           /\ SlotRemains
           /\ ~is_some(from_str_ok(PosArg_type(NextSlot), arg'[1])))
            => /\ panic' = NoPanic
               /\ pc' = "loop"
               /\ ~is_some(pos_val'[NextSlot])
       /\ (/\ IsKVKey(arg'[1])
           /\ val_arg' # <<>>
           /\ ~is_some(from_str_ok(KVArg_type(kv_keys[KeyOf(arg'[1])]), val_arg'[1])))
            => /\ panic' = NoPanic
               /\ pc' = "loop"
               /\ ~is_some(kv_val'[kv_keys[KeyOf(arg'[1])]])]_vars

(***************************************************************************)
(* C5: an iteration that matches a flag key moves the iterator past that   *)
(* one token only and takes no value token, and a bare token in the        *)
(* iteration after it is parsed into the next positional slot.             *)
(***************************************************************************)
C5_Step ==
  /\ (Matched /\ IsFlagKey(arg'[1]))
       => /\ it' = it + 1
          /\ val_arg' = <<>>
          /\ flag_val'[flag_keys[KeyOf(arg'[1])]]
          /\ UNCHANGED <<pos_val, kv_val, pos_args_consumed>>
  /\ (/\ Matched
      /\ arg # <<>> /\ IsFlagKey(arg[1])
      /\ Bare(arg'[1]))
       => /\ pos_val'[NextSlot] = from_str_ok(PosArg_type(NextSlot), arg'[1])
          /\ pos_args_consumed' = pos_args_consumed + 1

\* C5: every step treats a flag key, and the token after it, as C5_Step says
C5_FlagTakesNoToken == [][C5_Step]_vars

\* one call has matched a key of verbose and then "in.txt", into path
C5_Witness ==
  /\ pc = "loop" /\ panic = NoPanic
  /\ it = 3 /\ arg = <<"in.txt">>
  /\ supplied = {"verbose"} /\ flag_val["verbose"]
  /\ pos_args_consumed = 1 /\ pos_args[1] = "path"
  /\ pos_val["path"] = SomeStr("in.txt")

(***************************************************************************)
(* C6: a bare token in key position, of one character or more, is parsed   *)
(* into the next positional slot when one remains, without aborting.       *)
(***************************************************************************)
C6_BareTokenBound ==
  [][(Iteration /\ Bare(arg'[1]) /\ SlotRemains)
       => /\ panic' = NoPanic
          /\ pos_val'[NextSlot] = from_str_ok(PosArg_type(NextSlot), arg'[1])
          /\ pos_args_consumed' = pos_args_consumed + 1]_vars

(***************************************************************************)
(* C7: an iteration aborts with "Too many positional args!" exactly when   *)
(* its token is bare and every positional slot has been consumed.          *)
(***************************************************************************)
C7_TooManyExactly ==
  [][Iteration =>
       (panic' = PanicTooManyPos
          <=> (Bare(arg'[1]) /\ pos_args_consumed = Len(pos_args)))]_vars

(***************************************************************************)
(* C8: a marker-prefixed token in key position whose key is in neither     *)
(* table aborts with "No such key", and nothing is parsed.                 *)
(***************************************************************************)
C8_UnknownKeyAborts ==
  [][(/\ Iteration
      /\ Marked(arg'[1])
      /\ KeyOf(arg'[1]) \notin DOMAIN kv_keys \cup DOMAIN flag_keys)
       => /\ panic' = PanicUnknownKey
          /\ UNCHANGED <<values, pos_args_consumed>>]_vars

(***************************************************************************)
(* C9, as claimed: the iteration on a key of a key-value argument that is  *)
(* the last token of argv aborts on the missing value, the argument's      *)
(* value being absent.                                                     *)
(***************************************************************************)
C9_Original ==
  [][\A tok \in Tokens :
       (parse_vec_iteration(tok, <<>>) /\ IsKVKey(tok))
         => /\ panic' = PanicMissingValue
            /\ ~is_some(kv_val'[kv_keys[KeyOf(tok)]])]_vars

(***************************************************************************)
(* C9, amended: the iteration on a key of a key-value argument that is not *)
(* already found, the key being the last token of argv, aborts on the      *)
(* missing value and the argument's value stays absent.                    *)
(***************************************************************************)
C9_MissingValueAborts ==
  [][\A tok \in Tokens :
       (/\ parse_vec_iteration(tok, <<>>)
        /\ IsKVKey(tok)
        /\ ~is_some(kv_val[kv_keys[KeyOf(tok)]]))
         => /\ panic' = PanicMissingValue
            /\ ~is_some(kv_val'[kv_keys[KeyOf(tok)]])]_vars

\* the last token of argv was a key of count, which was not found
C9_Witness ==
  /\ panic = PanicMissingValue
  /\ arg # <<>> /\ IsKVKey(arg[1]) /\ kv_keys[KeyOf(arg[1])] = "count"
  /\ ~is_some(kv_val["count"])

(***************************************************************************)
(* C10: add_pos_arg with a name already registered fails and leaves        *)
(* pos_args and pos_arg_names as they were; no two positional slots ever   *)
(* share a name.                                                           *)
(***************************************************************************)
C10_NoSharedName ==
  /\ \A i, j \in DOMAIN pos_args :
       i # j => PosArg_name(pos_args[i]) # PosArg_name(pos_args[j])
  /\ pos_arg_names = {PosArg_name(pos_args[i]) : i \in DOMAIN pos_args}

\* C10: no two slots ever share a name, and a refused add_pos_arg changes
\* neither pos_args nor pos_arg_names
C10_DuplicatePositionalFails ==
  /\ []C10_NoSharedName
  /\ [][\A p \in PosArgs :
          (/\ panic = NoPanic /\ alive /\ pc = "idle"
           /\ PosArg_name(p) \in {PosArg_name(pos_args[i]) : i \in DOMAIN pos_args}
           /\ add_pos_arg(p))
            => /\ panic' = PanicDupPosName
               /\ UNCHANGED <<pos_args, pos_arg_names>>]_vars
  /\ [][(panic = NoPanic /\ panic' = PanicDupPosName)
          => UNCHANGED <<pos_args, pos_arg_names>>]_vars

\* a second positional argument named "path" was refused
C10_Witness ==
  /\ panic = PanicDupPosName
  /\ Len(pos_args) >= 1
  /\ \E i \in DOMAIN pos_args : PosArg_name(pos_args[i]) = "path"

(***************************************************************************)
(* Vocabulary of the registration claims.                                  *)
(***************************************************************************)
\* the key strings under which an argument object asks to be registered
KVArg_keys(k) == {KVArg_name(k)} \cup Range(KVArg_short_key(k))
FlagArg_keys(f) == {FlagArg_name(f)} \cup Range(FlagArg_short_key(f))
\* the key strings registered so far, of either kind
AllKeys == DOMAIN kv_keys \cup DOMAIN flag_keys
\* the panics of add_kv_arg and add_flag_arg
RegistrationPanics == {PanicKeyCollision, PanicNameLen, PanicAliasCollision}

\* C11: the long names and short keys of KVArgs and FlagArgs form one
\* namespace. No key string is in both kv_keys and flag_keys; every key
\* string maps to one argument object, one of whose keys it is, and stays
\* mapped to it; and add_kv_arg / add_flag_arg of an object whose long name
\* or short key is already a key of either table panics.
C11_OneNamespace ==
  /\ [](/\ DOMAIN kv_keys \cap DOMAIN flag_keys = {}
        /\ \A key \in DOMAIN kv_keys : key \in KVArg_keys(kv_keys[key])
        /\ \A key \in DOMAIN flag_keys : key \in FlagArg_keys(flag_keys[key]))
  /\ [][/\ \A key \in DOMAIN kv_keys :
              key \in DOMAIN kv_keys' /\ kv_keys'[key] = kv_keys[key]
        /\ \A key \in DOMAIN flag_keys :
              key \in DOMAIN flag_keys' /\ flag_keys'[key] = flag_keys[key]
        /\ \A k \in KVArgs :
              add_kv_arg(k) /\ KVArg_keys(k) \cap AllKeys # {}
                => panic' \in {PanicKeyCollision, PanicAliasCollision}
        /\ \A f \in FlagArgs :
              add_flag_arg(f) /\ FlagArg_keys(f) \cap AllKeys # {}
                => panic' \in {PanicKeyCollision, PanicAliasCollision}]_vars

\* the FlagArg e_acute was refused for its short key 'c', which the KVArg
\* count holds
C11_Witness ==
  /\ panic = PanicAliasCollision
  /\ "c" \in DOMAIN kv_keys /\ kv_keys["c"] = "count"
  /\ "c" \notin DOMAIN flag_keys
  /\ "é" \in DOMAIN flag_keys

\* C12: add_kv_arg and add_flag_arg have no partial success. Whenever one of
\* them panics (long name already a key, long name too short, short key
\* already a key), kv_keys and flag_keys hold exactly the keys they held
\* before the call: neither the long name nor the short key was added.
C12_NoPartialRegistration ==
  [][panic = NoPanic /\ panic' \in RegistrationPanics
       => /\ DOMAIN kv_keys' = DOMAIN kv_keys
          /\ DOMAIN flag_keys' = DOMAIN flag_keys]_vars

\* C13: add_kv_arg / add_flag_arg of an object whose long name has at most
\* one character panics, so every long name that is a key of kv_keys or
\* flag_keys has more than one character, and a key of one character is
\* always the short key of the object it maps to. (Len counts characters.)
C13_LongNamesLong ==
  /\ [](/\ \A key \in DOMAIN kv_keys :
             /\ key = KVArg_name(kv_keys[key]) => Len(key) > 1
             /\ Len(key) = 1 => KVArg_short_key(kv_keys[key]) = <<key>>
        /\ \A key \in DOMAIN flag_keys :
             /\ key = FlagArg_name(flag_keys[key]) => Len(key) > 1
             /\ Len(key) = 1 => FlagArg_short_key(flag_keys[key]) = <<key>>)
  /\ [][/\ \A k \in KVArgs :
              add_kv_arg(k) /\ Len(KVArg_name(k)) <= 1 => panic' # NoPanic
        /\ \A f \in FlagArgs :
              add_flag_arg(f) /\ Len(FlagArg_name(f)) <= 1 => panic' # NoPanic]_vars

\* this step belongs to a call of parse_vec: its entry, an iteration, its return
ParseStep == pc = "loop" \/ pc' = "loop"

\* C14: parse_vec checks nothing for completeness. Wherever argv ends, also
\* with positional slots unfilled and keys never seen, the call returns
\* without a panic and without touching a value; and no step of the call
\* makes an argument found unless the token of that step is routed to it, so
\* an argument that was absent before the call and that no token was routed
\* to is absent after it.
C14_NoCompletenessCheck ==
  /\ [](pc = "loop" /\ panic = NoPanic => ENABLED parse_vec_return)
  /\ [][parse_vec_return
          => pc' = "idle" /\ panic' = NoPanic /\ UNCHANGED values]_vars
  /\ [][ParseStep
          => /\ \A p \in PosArgs :
                  is_some(pos_val'[p]) /\ ~is_some(pos_val[p])
                    => Iteration /\ Bare(arg'[1]) /\ SlotRemains /\ p = NextSlot
             /\ \A k \in KVArgs :
                  is_some(kv_val'[k]) /\ ~is_some(kv_val[k])
                    => Iteration /\ IsKVKey(arg'[1]) /\ k = kv_keys[KeyOf(arg'[1])]
             /\ \A f \in FlagArgs :
                  flag_val'[f] /\ ~flag_val[f]
                    => Iteration /\ IsFlagKey(arg'[1])
                         /\ f = flag_keys[KeyOf(arg'[1])]]_vars

\* a call has returned having filled the first of two slots only, and having
\* seen no key of the registered count and verbose
C14_Witness ==
  /\ pc = "idle" /\ panic = NoPanic /\ alive
  /\ pos_args = <<"path", "num">>
  /\ pos_val["path"] = SomeStr("in.txt") /\ ~PosArg_found("num")
  /\ "count" \in DOMAIN kv_keys /\ ~KVArg_found("count")
  /\ "verbose" \in DOMAIN flag_keys /\ ~FlagArg_found("verbose")

OneMarker(key) == "-" \o key
TwoMarkers(key) == "--" \o key
\* this step is what the loop body does with both marked forms of key: the
\* forms resolve to the same argument and have the same effect
SameEffect(key) ==
  /\ parse_vec_match(OneMarker(key), val_arg')
  /\ parse_vec_match(TwoMarkers(key), val_arg')

\* C17, as claimed: for every registered key string, long name or short key,
\* an iteration on the key after one marker and an iteration on the key
\* after two markers resolve to the same argument and have the same effect.
C17_Original ==
  [][pc = "loop" /\ arg' # <<>>
       => \A key \in AllKeys :
            arg'[1] \in {OneMarker(key), TwoMarkers(key)} => SameEffect(key)]_vars

\* C17, amended: the same for every registered key string that does not
\* begin with the marker character.
C17_MarkerCountIrrelevant ==
  [][pc = "loop" /\ arg' # <<>>
       => \A key \in AllKeys :
            /\ SubSeq(key, 1, 1) # "-"
            /\ arg'[1] \in {OneMarker(key), TwoMarkers(key)}
            => SameEffect(key)]_vars

\* the long name of count after a single marker, with the value "42"
C17_Witness ==
  /\ pc = "loop" /\ panic = NoPanic
  /\ arg = <<"-count">> /\ val_arg = <<"42">>
  /\ "count" \in DOMAIN kv_keys
  /\ kv_val["count"] = SomeInt(42)

\* C18: parse_vec takes the first element of argv for the program path and
\* never matches it. Whatever it is (the empty string, a marked token, a
\* registered key, a token of one character), entering the call changes no
\* value and does not panic, and the cursor and the iterator start behind
\* it: matching begins with the second element. On an argv of length 0 the
\* iterator yields nothing, and on an argv of length 0 or 1 the call
\* returns from where it entered, having changed no value.
C18_ProgramPathSkipped ==
  /\ [][\A first \in OptTokens :
          parse_vec_enter(first)
            => /\ UNCHANGED <<registry, values, panic>>
               /\ pc' = "loop" /\ it' = Len(first)
               /\ pos_args_consumed' = 0 /\ supplied' = {} /\ arg' = <<>>]_vars
  /\ [](pc = "loop" /\ it = 0 => ~ENABLED parse_vec_loop)
  /\ [](pc = "loop" /\ arg = <<>> /\ panic = NoPanic => ENABLED parse_vec_return)
  /\ [][pc = "loop" /\ arg = <<>> /\ parse_vec_return
          => pc' = "idle" /\ UNCHANGED <<registry, values, panic>>]_vars

\* a call has entered on an argv of one element, with a flag and a slot
\* registered that this element could have been matched to, and nothing is
\* matched
C18_Witness ==
  /\ pc = "loop" /\ it = 1 /\ arg = <<>> /\ panic = NoPanic
  /\ "verbose" \in DOMAIN flag_keys /\ ~FlagArg_found("verbose")
  /\ pos_args # <<>> /\ pos_args_consumed = 0 /\ ~PosArg_found(pos_args[1])
  /\ supplied = {}

\* C19: a second supply is detected by the value held, not by the call of
\* parse_vec it came in. A key of a key-value argument that holds a value
\* aborts the call, in whichever call the value was parsed, and leaves the
\* value; the key is matched again only once the argument holds none, which
\* a held value becomes by val() alone (a failed conversion leaves none to
\* begin with). A flag that is found stays found under every operation, so
\* a key of it aborts every later call.
C19_DuplicateByHeldValue ==
  /\ [][\A f \in FlagArgs : flag_val[f] => flag_val'[f]]_vars
  /\ [][\A k \in KVArgs :
          is_some(kv_val[k]) /\ kv_val'[k] # kv_val[k]
            => pc = "idle" /\ ret' = <<k, kv_val[k]>> /\ kv_val'[k] = None]_vars
  /\ [][Iteration /\ IsKVKey(arg'[1])
          => IF is_some(kv_val[kv_keys[KeyOf(arg'[1])]])
             THEN panic' = PanicDupSupply /\ UNCHANGED values
             ELSE panic' \in {NoPanic, PanicMissingValue}]_vars
  /\ [][Iteration /\ IsFlagKey(arg'[1])
          => IF flag_val[flag_keys[KeyOf(arg'[1])]]
             THEN panic' = PanicDupSupply /\ UNCHANGED values
             ELSE panic' = NoPanic]_vars

\* count, which holds 5 from an earlier call, is refused as the first token
\* of a later call
C19_Witness ==
  /\ panic = PanicDupSupply
  /\ supplied = {} /\ it = 2
  /\ arg = <<"--count">>
  /\ kv_val["count"] = SomeInt(5)

\* the argument objects whose value this step changes
Changed ==
  {<<"pos", p>> : p \in {q \in PosArgs : pos_val'[q] # pos_val[q]}}
    \cup {<<"kv", k>> : k \in {q \in KVArgs : kv_val'[q] # kv_val[q]}}
    \cup {<<"flag", f>> : f \in {q \in FlagArgs : flag_val'[q] # flag_val[q]}}
\* the argument object the token tok is routed to, if any
RoutedTo(tok) ==
  IF Bare(tok) THEN {<<"pos", pos_args[i]>> : i \in {pos_args_consumed + 1} \cap DOMAIN pos_args}
  ELSE IF IsKVKey(tok) THEN {<<"kv", kv_keys[KeyOf(tok)]>>}
  ELSE IF IsFlagKey(tok) THEN {<<"flag", flag_keys[KeyOf(tok)]>>}
  ELSE {}

\* C20: a call of parse_vec leaves the registry as it was: pos_args,
\* pos_arg_names, kv_keys and flag_keys are the same after every step of the
\* call, an aborting one included. Its entry and its return change no value,
\* and an iteration changes the value of at most one argument, the one its
\* token is routed to.
C20_MatchingFrame ==
  [][ParseStep
       => /\ UNCHANGED registry
          /\ Cardinality(Changed) <= 1
          /\ IF Iteration THEN Changed \subseteq RoutedTo(arg'[1])
             ELSE Changed = {}]_vars

\* a call has filled the slot path and then aborted on an unknown key, with
\* the slot, count and verbose still registered
C20_Witness ==
  /\ panic = PanicUnknownKey
  /\ arg = <<"--bogus">> /\ it = 3
  /\ pos_args = <<"path">> /\ pos_arg_names = {"path"}
  /\ pos_val["path"] = SomeStr("in.txt")
  /\ DOMAIN kv_keys = {"count", "c"}
  /\ DOMAIN flag_keys = {"verbose", "v"}

=============================================================================
